---- MODULE Spec2Model ----
(***************************************************************************)
(* ratatui-base16: the Base16Palette record, its loaders from_yaml and     *)
(* from_toml, the color-string normalizer deserialize_from_str and the     *)
(* preset catalog built by the palette! macro (src/src/lib.rs).            *)
(*                                                                         *)
(* Strings are sequences of one-character strings, so that prefixing,      *)
(* slicing, lower-casing and digit parsing are computed, not assumed.      *)
(* All characters of the model are ASCII: a byte length is a Len.          *)
(*                                                                         *)
(* The library calls the source makes are modelled by what the libraries   *)
(* do: ratatui's Color (from_str, from_u32, Display), core's integer       *)
(* parsing, serde's derived visitor and figment's file providers.          *)
(***************************************************************************)
EXTENDS Integers, Sequences, FiniteSets, TLC

VARIABLES
    tok,      \* the string handed to deserialize_from_str
    parsed,   \* <<what deserialize_from_str returned for it>>, <<>> before the call
    pal,      \* the Base16Palette value the caller holds
    origin,   \* the catalog constant pal is a copy of, "default", or "edited"
    file,     \* the file at the path given to the loaders
    result,   \* <<the last from_yaml / from_toml call: format, input, return>>, or <<>>
    edits     \* how many hand edits the file or the palette has received

vars == <<tok, parsed, pal, origin, file, result, edits>>

(***************************************************************************)
(* Bounds of the model.                                                    *)
(***************************************************************************)
MaxTokLen == 7

MaxEdits == 1

(***************************************************************************)
(* Characters.                                                             *)
(***************************************************************************)
UpperLetters ==
    <<"A","B","C","D","E","F","G","H","I","J","K","L","M",
      "N","O","P","Q","R","S","T","U","V","W","X","Y","Z">>

LowerLetters ==
    <<"a","b","c","d","e","f","g","h","i","j","k","l","m",
      "n","o","p","q","r","s","t","u","v","w","x","y","z">>

\* The digits of radix up to 16, by value (index - 1).
DigitChars ==
    <<"0","1","2","3","4","5","6","7","8","9","a","b","c","d","e","f">>

\* The digits "{:02X}" writes, by value (index - 1).
UpperHexChars ==
    <<"0","1","2","3","4","5","6","7","8","9","A","B","C","D","E","F">>

\* The lower-case letter of each upper-case letter.
LowerOf == [c \in {UpperLetters[i] : i \in 1..Len(UpperLetters)} |->
               LowerLetters[CHOOSE i \in 1..Len(UpperLetters) : UpperLetters[i] = c]]

\* The value of each digit character.
ValueOf == [c \in {DigitChars[i] : i \in 1..Len(DigitChars)} |->
               (CHOOSE i \in 1..Len(DigitChars) : DigitChars[i] = c) - 1]

\* char::to_ascii_lowercase, as str::to_lowercase does on ASCII text.
to_lowercase_char(c) == IF c \in DOMAIN LowerOf THEN LowerOf[c] ELSE c

to_lowercase(s) == [i \in 1..Len(s) |-> to_lowercase_char(s[i])]

\* char::to_digit(radix): the digit's value, or -1 when c is no digit of the radix.
to_digit(c, radix) ==
    LET l == to_lowercase_char(c)
    IN  IF l \in DOMAIN ValueOf /\ ValueOf[l] < radix THEN ValueOf[l] ELSE -1

\* str::starts_with(char)
starts_with(s, c) == Len(s) >= 1 /\ s[1] = c

\* str::replace(from, to): every non-overlapping match, left to right.
RECURSIVE replace(_, _, _)
replace(s, from, to) ==
    IF Len(s) < Len(from) THEN s
    ELSE IF SubSeq(s, 1, Len(from)) = from
         THEN to \o replace(SubSeq(s, Len(from) + 1, Len(s)), from, to)
         ELSE <<s[1]>> \o replace(Tail(s), from, to)

\* str::replace([' ', '-', '_'], ""): the three characters removed.
remove_separators(s) == SelectSeq(s, LAMBDA c : c \notin {" ", "-", "_"})

(***************************************************************************)
(* ratatui::style::Color, the type of the 16 slots.                        *)
(***************************************************************************)
Rgb(r, g, b) == [kind |-> "Rgb", r |-> r, g |-> g, b |-> b]

Indexed(i) == [kind |-> "Indexed", i |-> i]

Named(n) == [kind |-> n]

\* Color::default() is Color::Reset.
Reset == Named("Reset")

\* The colors with a name: the name Color::from_str matches (after normalisation),
\* the variant, and the text Display writes for it.
ColorNames ==
    <<
       <<<<"r","e","s","e","t">>,
         "Reset", <<"R","e","s","e","t">>>>,
       <<<<"b","l","a","c","k">>,
         "Black", <<"B","l","a","c","k">>>>,
       <<<<"r","e","d">>,
         "Red", <<"R","e","d">>>>,
       <<<<"g","r","e","e","n">>,
         "Green", <<"G","r","e","e","n">>>>,
       <<<<"y","e","l","l","o","w">>,
         "Yellow", <<"Y","e","l","l","o","w">>>>,
       <<<<"b","l","u","e">>,
         "Blue", <<"B","l","u","e">>>>,
       <<<<"m","a","g","e","n","t","a">>,
         "Magenta", <<"M","a","g","e","n","t","a">>>>,
       <<<<"c","y","a","n">>,
         "Cyan", <<"C","y","a","n">>>>,
       <<<<"g","r","a","y">>,
         "Gray", <<"G","r","a","y">>>>,
       <<<<"d","a","r","k","g","r","a","y">>,
         "DarkGray", <<"D","a","r","k","G","r","a","y">>>>,
       <<<<"l","i","g","h","t","r","e","d">>,
         "LightRed", <<"L","i","g","h","t","R","e","d">>>>,
       <<<<"l","i","g","h","t","g","r","e","e","n">>,
         "LightGreen", <<"L","i","g","h","t","G","r","e","e","n">>>>,
       <<<<"l","i","g","h","t","y","e","l","l","o","w">>,
         "LightYellow", <<"L","i","g","h","t","Y","e","l","l","o","w">>>>,
       <<<<"l","i","g","h","t","b","l","u","e">>,
         "LightBlue", <<"L","i","g","h","t","B","l","u","e">>>>,
       <<<<"l","i","g","h","t","m","a","g","e","n","t","a">>,
         "LightMagenta", <<"L","i","g","h","t","M","a","g","e","n","t","a">>>>,
       <<<<"l","i","g","h","t","c","y","a","n">>,
         "LightCyan", <<"L","i","g","h","t","C","y","a","n">>>>,
       <<<<"w","h","i","t","e">>,
         "White", <<"W","h","i","t","e">>>>
    >>

\* The spelling variants Color::from_str folds, each <<from, to>>, in order.
Spellings ==
    <<
       <<<<"b","r","i","g","h","t">>,
         <<"l","i","g","h","t">>>>,
       <<<<"g","r","e","y">>,
         <<"g","r","a","y">>>>,
       <<<<"s","i","l","v","e","r">>,
         <<"g","r","a","y">>>>,
       <<<<"l","i","g","h","t","b","l","a","c","k">>,
         <<"d","a","r","k","g","r","a","y">>>>,
       <<<<"l","i","g","h","t","w","h","i","t","e">>,
         <<"w","h","i","t","e">>>>,
       <<<<"l","i","g","h","t","g","r","a","y">>,
         <<"w","h","i","t","e">>>>
    >>

\* <integer>::from_str_radix for u8: an optional leading '+', then one or more
\* digits of the radix, the value at most u8::MAX.  -1 stands for the Err.
RECURSIVE digits_value(_, _, _)
digits_value(s, radix, acc) ==
    IF Len(s) = 0 THEN acc
    ELSE LET d == to_digit(s[1], radix)
         IN  IF d < 0 THEN -1
             ELSE IF acc * radix + d > 255 THEN -1
             ELSE digits_value(Tail(s), radix, acc * radix + d)

from_str_radix(s, radix) ==
    LET digits == IF starts_with(s, "+") THEN Tail(s) ELSE s
    IN  IF Len(digits) = 0 THEN -1 ELSE digits_value(digits, radix, 0)

\* A parse_hex_color that reads the channels in the order blue, green, red.
parse_hex_color_bgr(s) ==
    IF ~starts_with(s, "#") \/ Len(s) # 7 THEN [ok |-> FALSE]
    ELSE LET r == from_str_radix(SubSeq(s, 6, 7), 16)
             g == from_str_radix(SubSeq(s, 4, 5), 16)
             b == from_str_radix(SubSeq(s, 2, 3), 16)
         IN  IF r < 0 \/ g < 0 \/ b < 0 THEN [ok |-> FALSE]
             ELSE [ok |-> TRUE, val |-> Rgb(r, g, b)]

\* ratatui's hex form: '#' and six more bytes, read as three radix-16 u8.
parse_hex_color(s) ==
    IF ~starts_with(s, "#") \/ Len(s) # 7 THEN [ok |-> FALSE]
    ELSE LET r == from_str_radix(SubSeq(s, 2, 3), 16)
             g == from_str_radix(SubSeq(s, 4, 5), 16)
             b == from_str_radix(SubSeq(s, 6, 7), 16)
         IN  IF r < 0 \/ g < 0 \/ b < 0 THEN [ok |-> FALSE]
             ELSE [ok |-> TRUE, val |-> Rgb(r, g, b)]

\* The name Color::from_str looks up: lower case, separators removed, and the
\* spelling variants folded, in this order.
RECURSIVE fold_spellings(_, _)
fold_spellings(s, k) ==
    IF k > Len(Spellings) THEN s
    ELSE fold_spellings(replace(s, Spellings[k][1], Spellings[k][2]), k + 1)

normalized_name(s) == fold_spellings(remove_separators(to_lowercase(s)), 1)

\* <Color as FromStr>::from_str, called at lines 206 and 208: a color name, else
\* a u8 palette index, else the hex form, else ParseColorError.
Color_from_str(s) ==
    LET n == normalized_name(s)
    IN  IF \E i \in 1..Len(ColorNames) : ColorNames[i][1] = n
        THEN [ok |-> TRUE,
              val |-> Named(ColorNames[CHOOSE i \in 1..Len(ColorNames) :
                                           ColorNames[i][1] = n][2])]
        ELSE LET index == from_str_radix(s, 10)
                 hex   == parse_hex_color(s)
             IN  IF index >= 0 THEN [ok |-> TRUE, val |-> Indexed(index)]
                 ELSE IF hex.ok THEN hex
                 ELSE [ok |-> FALSE, err |-> "ParseColorError"]

(***************************************************************************)
(* A value of a parsed document, as figment hands it to serde.             *)
(***************************************************************************)
Str(s) == [type |-> "str", s |-> s]

\* A YAML or TOML integer, such as an unquoted 282936.
Num == [type |-> "num"]

\* String::deserialize: a string value gives its text, any other type is refused.
String_deserialize(v) ==
    IF v.type = "str" THEN [ok |-> TRUE, val |-> v.s]
    ELSE [ok |-> FALSE, err |-> "invalid type"]

\* A deserialize_from_str that hands a token without '#' to the parser as it is.
deserialize_from_str_as_is(v) ==
    LET s == String_deserialize(v)
    IN  IF ~s.ok THEN s ELSE Color_from_str(s.val)

\* A deserialize_from_str that takes the default color for a token the parser
\* refuses (unwrap_or_default in place of map_err).
deserialize_from_str_lenient(v) ==
    LET s == String_deserialize(v)
        c == IF ~s.ok THEN s
             ELSE IF starts_with(s.val, "#") THEN Color_from_str(s.val)
             ELSE Color_from_str(<<"#">> \o s.val)
    IN  IF c.ok THEN c ELSE [ok |-> TRUE, val |-> Reset]

\* deserialize_from_str (lines 200-210).
deserialize_from_str(v) ==
    LET s == String_deserialize(v)
    IN  IF ~s.ok THEN s
        ELSE IF starts_with(s.val, "#")
             THEN Color_from_str(s.val)
             ELSE Color_from_str(<<"#">> \o s.val)

(***************************************************************************)
(* Base16Palette (lines 51-132) and the preset catalog (lines 212-510).    *)
(***************************************************************************)
\* The 16 slot fields, in declaration order.  rename_all = "snake_case" leaves a
\* field name that is already snake_case as it is: these are also the keys.
SlotNames ==
    <<"base00", "base01", "base02", "base03", "base04", "base05", "base06", "base07",
      "base08", "base09", "base0a", "base0b", "base0c", "base0d", "base0e", "base0f">>

Slots == 1..Len(SlotNames)

\* A from_u32 that reads the literal as 0x00BBGGRR.
Color_from_u32_bgr(u) == Rgb(u % 256, (u \div 256) % 256, (u \div 65536) % 256)

\* Color::from_u32: 0x00RRGGBB, each channel cut to a u8.
Color_from_u32(u) == Rgb((u \div 65536) % 256, (u \div 256) % 256, u % 256)

\* The palette! macro: the record built from one invocation's tokens.
palette(a) ==
    [name |-> a.scheme, author |-> a.author, slug |-> a.slug,
     base00 |-> Color_from_u32(a.base00),
     base01 |-> Color_from_u32(a.base01),
     base02 |-> Color_from_u32(a.base02),
     base03 |-> Color_from_u32(a.base03),
     base04 |-> Color_from_u32(a.base04),
     base05 |-> Color_from_u32(a.base05),
     base06 |-> Color_from_u32(a.base06),
     base07 |-> Color_from_u32(a.base07),
     base08 |-> Color_from_u32(a.base08),
     base09 |-> Color_from_u32(a.base09),
     base0a |-> Color_from_u32(a.base0a),
     base0b |-> Color_from_u32(a.base0b),
     base0c |-> Color_from_u32(a.base0c),
     base0d |-> Color_from_u32(a.base0d),
     base0e |-> Color_from_u32(a.base0e),
     base0f |-> Color_from_u32(a.base0f)]

\* <Base16Palette as Default>::default(): empty metadata, every slot Color::Reset.
Base16Palette_default ==
    [name |-> "", author |-> "", slug |-> "",
     base00 |-> Reset,
     base01 |-> Reset,
     base02 |-> Reset,
     base03 |-> Reset,
     base04 |-> Reset,
     base05 |-> Reset,
     base06 |-> Reset,
     base07 |-> Reset,
     base08 |-> Reset,
     base09 |-> Reset,
     base0a |-> Reset,
     base0b |-> Reset,
     base0c |-> Reset,
     base0d |-> Reset,
     base0e |-> Reset,
     base0f |-> Reset]

\* The palette! invocations as written, by the name of the constant (the accent of
\* "Rosé" is written e: the metadata strings are never parsed).
Invocations ==
    [CUPCAKE |->
        [scheme |-> "Cupcake",
         author |-> "Chris Kempson (http://chriskempson.com)",
         slug |-> "https://github.com/chriskempson/base16-default-schemes/blob/master/cupcake.yaml",
         base00 |-> \H00fbf1f2,
         base01 |-> \H00f2f1f4,
         base02 |-> \H00d8d5dd,
         base03 |-> \H00bfb9c6,
         base04 |-> \H00a59daf,
         base05 |-> \H008b8198,
         base06 |-> \H0072677E,
         base07 |-> \H00585062,
         base08 |-> \H00D57E85,
         base09 |-> \H00EBB790,
         base0a |-> \H00DCB16C,
         base0b |-> \H00A3B367,
         base0c |-> \H0069A9A7,
         base0d |-> \H007297B9,
         base0e |-> \H00BB99B4,
         base0f |-> \H00BAA58C],
     DEFAULT_DARK |->
        [scheme |-> "Default Dark",
         author |-> "Chris Kempson (http://chriskempson.com)",
         slug |-> "https://github.com/chriskempson/base16-default-schemes/blob/master/default-dark.yaml",
         base00 |-> \H00181818,
         base01 |-> \H00282828,
         base02 |-> \H00383838,
         base03 |-> \H00585858,
         base04 |-> \H00b8b8b8,
         base05 |-> \H00d8d8d8,
         base06 |-> \H00e8e8e8,
         base07 |-> \H00f8f8f8,
         base08 |-> \H00ab4642,
         base09 |-> \H00dc9656,
         base0a |-> \H00f7ca88,
         base0b |-> \H00a1b56c,
         base0c |-> \H0086c1b9,
         base0d |-> \H007cafc2,
         base0e |-> \H00ba8baf,
         base0f |-> \H00a16946],
     DEFAULT_LIGHT |->
        [scheme |-> "Default Light",
         author |-> "Chris Kempson (http://chriskempson.com)",
         slug |-> "https://github.com/chriskempson/base16-default-schemes/blob/master/default-light.yaml",
         base00 |-> \H00f8f8f8,
         base01 |-> \H00e8e8e8,
         base02 |-> \H00d8d8d8,
         base03 |-> \H00b8b8b8,
         base04 |-> \H00585858,
         base05 |-> \H00383838,
         base06 |-> \H00282828,
         base07 |-> \H00181818,
         base08 |-> \H00ab4642,
         base09 |-> \H00dc9656,
         base0a |-> \H00f7ca88,
         base0b |-> \H00a1b56c,
         base0c |-> \H0086c1b9,
         base0d |-> \H007cafc2,
         base0e |-> \H00ba8baf,
         base0f |-> \H00a16946],
     EIGHTIES |->
        [scheme |-> "Eighties",
         author |-> "Chris Kempson (http://chriskempson.com)",
         slug |-> "https://github.com/chriskempson/base16-default-schemes/blob/master/eighties.yaml",
         base00 |-> \H002d2d2d,
         base01 |-> \H00393939,
         base02 |-> \H00515151,
         base03 |-> \H00747369,
         base04 |-> \H00a09f93,
         base05 |-> \H00d3d0c8,
         base06 |-> \H00e8e6df,
         base07 |-> \H00f2f0ec,
         base08 |-> \H00f2777a,
         base09 |-> \H00f99157,
         base0a |-> \H00ffcc66,
         base0b |-> \H0099cc99,
         base0c |-> \H0066cccc,
         base0d |-> \H006699cc,
         base0e |-> \H00cc99cc,
         base0f |-> \H00d27b53],
     MOCHA |->
        [scheme |-> "Mocha",
         author |-> "Chris Kempson (http://chriskempson.com)",
         slug |-> "https://github.com/chriskempson/base16-default-schemes/blob/master/mocha.yaml",
         base00 |-> \H003b3228,
         base01 |-> \H00534636,
         base02 |-> \H00645240,
         base03 |-> \H007e705a,
         base04 |-> \H00b8afad,
         base05 |-> \H00d0c8c6,
         base06 |-> \H00e9e1dd,
         base07 |-> \H00f5eeeb,
         base08 |-> \H00cb6077,
         base09 |-> \H00d28b71,
         base0a |-> \H00f4bc87,
         base0b |-> \H00beb55b,
         base0c |-> \H007bbda4,
         base0d |-> \H008ab3b5,
         base0e |-> \H00a89bb9,
         base0f |-> \H00bb9584],
     OCEAN |->
        [scheme |-> "Ocean",
         author |-> "Chris Kempson (http://chriskempson.com)",
         slug |-> "https://github.com/chriskempson/base16-default-schemes/blob/master/ocean.yaml",
         base00 |-> \H002b303b,
         base01 |-> \H00343d46,
         base02 |-> \H004f5b66,
         base03 |-> \H0065737e,
         base04 |-> \H00a7adba,
         base05 |-> \H00c0c5ce,
         base06 |-> \H00dfe1e8,
         base07 |-> \H00eff1f5,
         base08 |-> \H00bf616a,
         base09 |-> \H00d08770,
         base0a |-> \H00ebcb8b,
         base0b |-> \H00a3be8c,
         base0c |-> \H0096b5b4,
         base0d |-> \H008fa1b3,
         base0e |-> \H00b48ead,
         base0f |-> \H00ab7967],
     DRACULA |->
        [scheme |-> "Dracula",
         author |-> "Mike Barkmin (http://github.com/mikebarkmin) based on Dracula Theme (http://github.com/dracula)",
         slug |-> "https://github.com/dracula/base16-dracula-scheme/blob/master/dracula.yaml",
         base00 |-> \H00282936,
         base01 |-> \H003a3c4e,
         base02 |-> \H004d4f68,
         base03 |-> \H00626483,
         base04 |-> \H0062d6e8,
         base05 |-> \H00e9e9f4,
         base06 |-> \H00f1f2f8,
         base07 |-> \H00f7f7fb,
         base08 |-> \H00ea51b2,
         base09 |-> \H00b45bcf,
         base0a |-> \H0000f769,
         base0b |-> \H00ebff87,
         base0c |-> \H00a1efe4,
         base0d |-> \H0062d6e8,
         base0e |-> \H00b45bcf,
         base0f |-> \H0000f769],
     GITHUB_LIGHT |->
        [scheme |-> "Github",
         author |-> "Defman21",
         slug |-> "https://github.com/Defman21/base16-github-scheme/blob/master/github.yaml",
         base00 |-> \H00ffffff,
         base01 |-> \H00f5f5f5,
         base02 |-> \H00c8c8fa,
         base03 |-> \H00969896,
         base04 |-> \H00e8e8e8,
         base05 |-> \H00333333,
         base06 |-> \H00ffffff,
         base07 |-> \H00ffffff,
         base08 |-> \H00ed6a43,
         base09 |-> \H000086b3,
         base0a |-> \H00795da3,
         base0b |-> \H00183691,
         base0c |-> \H00183691,
         base0d |-> \H00795da3,
         base0e |-> \H00a71d5d,
         base0f |-> \H00333333],
     ROSE_PINE_DAWN |->
        [scheme |-> "Rose Pine Dawn",
         author |-> "Emilia Dunfelt <edun@dunfelt.se>",
         slug |-> "https://github.com/edunfelt/base16-rose-pine-scheme/blob/main/rose-pine-dawn.yaml",
         base00 |-> \H00faf4ed,
         base01 |-> \H00fffaf3,
         base02 |-> \H00f2e9de,
         base03 |-> \H009893a5,
         base04 |-> \H00797593,
         base05 |-> \H00575279,
         base06 |-> \H00575279,
         base07 |-> \H00cecacd,
         base08 |-> \H00b4637a,
         base09 |-> \H00ea9d34,
         base0a |-> \H00d7827e,
         base0b |-> \H00286983,
         base0c |-> \H0056949f,
         base0d |-> \H00907aa9,
         base0e |-> \H00ea9d34,
         base0f |-> \H00cecacd],
     ROSE_PINE_MOON |->
        [scheme |-> "Rose Pine Moon",
         author |-> "Emilia Dunfelt <edun@dunfelt.se>",
         slug |-> "https://github.com/edunfelt/base16-rose-pine-scheme/blob/main/rose-pine-moon.yaml",
         base00 |-> \H00232136,
         base01 |-> \H002a273f,
         base02 |-> \H00393552,
         base03 |-> \H006e6a86,
         base04 |-> \H00908caa,
         base05 |-> \H00e0def4,
         base06 |-> \H00e0def4,
         base07 |-> \H0056526e,
         base08 |-> \H00eb6f92,
         base09 |-> \H00f6c177,
         base0a |-> \H00ea9a97,
         base0b |-> \H003e8fb0,
         base0c |-> \H009ccfd8,
         base0d |-> \H00c4a7e7,
         base0e |-> \H00f6c177,
         base0f |-> \H0056526e],
     ROSE_PINE |->
        [scheme |-> "Rose Pine",
         author |-> "Emilia Dunfelt <edun@dunfelt.se>",
         slug |-> "https://github.com/edunfelt/base16-rose-pine-scheme/blob/main/rose-pine.yaml",
         base00 |-> \H00191724,
         base01 |-> \H001f1d2e,
         base02 |-> \H0026233a,
         base03 |-> \H006e6a86,
         base04 |-> \H00908caa,
         base05 |-> \H00e0def4,
         base06 |-> \H00e0def4,
         base07 |-> \H00524f67,
         base08 |-> \H00eb6f92,
         base09 |-> \H00f6c177,
         base0a |-> \H00ebbcba,
         base0b |-> \H0031748f,
         base0c |-> \H009ccfd8,
         base0d |-> \H00c4a7e7,
         base0e |-> \H00f6c177,
         base0f |-> \H00524f67]]

PresetNames == DOMAIN Invocations

CUPCAKE == palette(Invocations.CUPCAKE)

DEFAULT_DARK == palette(Invocations.DEFAULT_DARK)

DEFAULT_LIGHT == palette(Invocations.DEFAULT_LIGHT)

EIGHTIES == palette(Invocations.EIGHTIES)

MOCHA == palette(Invocations.MOCHA)

OCEAN == palette(Invocations.OCEAN)

DRACULA == palette(Invocations.DRACULA)

GITHUB_LIGHT == palette(Invocations.GITHUB_LIGHT)

ROSE_PINE_DAWN == palette(Invocations.ROSE_PINE_DAWN)

ROSE_PINE_MOON == palette(Invocations.ROSE_PINE_MOON)

ROSE_PINE == palette(Invocations.ROSE_PINE)

\* The catalog constant of a name.
Catalog(n) ==
    CASE n = "CUPCAKE" -> CUPCAKE
      [] n = "DEFAULT_DARK" -> DEFAULT_DARK
      [] n = "DEFAULT_LIGHT" -> DEFAULT_LIGHT
      [] n = "EIGHTIES" -> EIGHTIES
      [] n = "MOCHA" -> MOCHA
      [] n = "OCEAN" -> OCEAN
      [] n = "DRACULA" -> DRACULA
      [] n = "GITHUB_LIGHT" -> GITHUB_LIGHT
      [] n = "ROSE_PINE_DAWN" -> ROSE_PINE_DAWN
      [] n = "ROSE_PINE_MOON" -> ROSE_PINE_MOON
      [] n = "ROSE_PINE" -> ROSE_PINE

(***************************************************************************)
(* Serialization: #[derive(Serialize)] of line 52, with ratatui's Display  *)
(* for Color (a Color is serialized as the string Display writes).         *)
(***************************************************************************)
\* "{:X}" in place of "{:02X}": no leading zero.
hex2_unpadded(n) ==
    IF n < 16 THEN <<UpperHexChars[n + 1]>>
    ELSE <<UpperHexChars[(n \div 16) + 1], UpperHexChars[(n % 16) + 1]>>

\* "{:02X}": two upper-case hex digits.
hex2(n) == <<UpperHexChars[(n \div 16) + 1], UpperHexChars[(n % 16) + 1]>>

\* u8's Display: decimal, no padding.
RECURSIVE decimal(_)
decimal(n) ==
    IF n < 10 THEN <<DigitChars[n + 1]>>
    ELSE decimal(n \div 10) \o <<DigitChars[(n % 10) + 1]>>

\* <Color as Display>::fmt
Color_to_string(c) ==
    IF c.kind = "Rgb" THEN <<"#">> \o hex2(c.r) \o hex2(c.g) \o hex2(c.b)
    ELSE IF c.kind = "Indexed" THEN decimal(c.i)
    ELSE ColorNames[CHOOSE i \in 1..Len(ColorNames) : ColorNames[i][2] = c.kind][3]

\* <Base16Palette as Serialize>::serialize: the 16 slots under their field names;
\* name, author and slug are #[serde(skip)].
serialize(p) ==
    [k \in {SlotNames[i] : i \in Slots} |-> Str(Color_to_string(p[k]))]

(***************************************************************************)
(* Files and figment's providers.                                          *)
(***************************************************************************)
Formats == {"yaml", "toml"}

\* A readable file: the grammar its text follows, who wrote it, and the top-level
\* fields its text denotes in that grammar.
File(syntax, by, fields) ==
    [kind |-> "file", syntax |-> syntax, by |-> by, fields |-> fields]

\* A file that exists and cannot be read (its permissions, for one).
Unreadable == [kind |-> "unreadable"]

\* A provider that requires its file (Data::file(path).required(true)).
Data_file_required(fmt, f) ==
    IF f.kind \in {"absent", "unreadable"} THEN [ok |-> FALSE, err |-> [kind |-> "io"]]
    ELSE IF f.syntax # fmt THEN [ok |-> FALSE, err |-> [kind |-> "syntax"]]
    ELSE [ok |-> TRUE, val |-> f.fields]

\* Data::<F>::file(path).data(): a path with no file gives no data at all
\* (Source::File(None) => Ok(Map::new())); a file is read and parsed as F.
Data_file(fmt, f) ==
    IF f.kind = "absent" THEN [ok |-> TRUE, val |-> <<>>]
    ELSE IF f.kind = "unreadable" THEN [ok |-> FALSE, err |-> [kind |-> "io"]]
    ELSE IF f.syntax # fmt THEN [ok |-> FALSE, err |-> [kind |-> "syntax"]]
    ELSE [ok |-> TRUE, val |-> f.fields]

\* The slots whose field name is a key of the dictionary.
seen_slots(d) == {i \in Slots : SlotNames[i] \in DOMAIN d}

\* What deserialize_from_str returns for the value of each slot seen.
slot_results(d) == [i \in seen_slots(d) |-> deserialize_from_str(d[SlotNames[i]])]

first_slot(S) == CHOOSE i \in S : \A j \in S : i <= j

\* The record the derived visitor builds: each slot from its own value, the
\* skipped fields name, author and slug from their Default.
Base16Palette_of(c) ==
    [name |-> "", author |-> "", slug |-> "",
     base00 |-> c[1], base01 |-> c[2], base02 |-> c[3], base03 |-> c[4],
     base04 |-> c[5], base05 |-> c[6], base06 |-> c[7], base07 |-> c[8],
     base08 |-> c[9], base09 |-> c[10], base0a |-> c[11], base0b |-> c[12],
     base0c |-> c[13], base0d |-> c[14], base0e |-> c[15], base0f |-> c[16]]

\* A visitor that binds base0e and base0f to each other's value.
Base16Palette_deserialize_swapped(d) ==
    LET got == slot_results(d)
        bad == {i \in seen_slots(d) : ~got[i].ok}
    IN  IF bad # {}
        THEN [ok |-> FALSE,
              err |-> [kind |-> got[first_slot(bad)].err,
                       field |-> SlotNames[first_slot(bad)]]]
        ELSE IF seen_slots(d) # Slots
        THEN [ok |-> FALSE,
              err |-> [kind |-> "missing field",
                       field |-> SlotNames[first_slot(Slots \ seen_slots(d))]]]
        ELSE [ok |-> TRUE,
              val |-> Base16Palette_of(
                          [i \in Slots |-> IF i = 15 THEN got[16].val
                                           ELSE IF i = 16 THEN got[15].val
                                           ELSE got[i].val])]

\* A visitor whose slots are #[serde(default)]: a missing slot is Color::default().
Base16Palette_deserialize_defaulted(d) ==
    LET got == slot_results(d)
        bad == {i \in seen_slots(d) : ~got[i].ok}
    IN  IF bad # {}
        THEN [ok |-> FALSE,
              err |-> [kind |-> got[first_slot(bad)].err,
                       field |-> SlotNames[first_slot(bad)]]]
        ELSE [ok |-> TRUE,
              val |-> Base16Palette_of(
                          [i \in Slots |-> IF i \in seen_slots(d) THEN got[i].val
                                           ELSE Reset])]

\* A visitor that leaves a slot whose value is refused at Color::default().
Base16Palette_deserialize_partial(d) ==
    LET got == slot_results(d)
    IN  IF seen_slots(d) # Slots
        THEN [ok |-> FALSE,
              err |-> [kind |-> "missing field",
                       field |-> SlotNames[first_slot(Slots \ seen_slots(d))]]]
        ELSE [ok |-> TRUE,
              val |-> Base16Palette_of(
                          [i \in Slots |-> IF got[i].ok THEN got[i].val ELSE Reset])]

\* The derived <Base16Palette as Deserialize>: visit_map takes the entries in the
\* dictionary's key order (which, for the field names, is declaration order), runs
\* deserialize_from_str on each slot's value and ignores every other key; then the
\* first slot never seen is a missing field.
Base16Palette_deserialize(d) ==
    LET got == slot_results(d)
        bad == {i \in seen_slots(d) : ~got[i].ok}
    IN  IF bad # {}
        THEN [ok |-> FALSE,
              err |-> [kind |-> got[first_slot(bad)].err,
                       field |-> SlotNames[first_slot(bad)]]]
        ELSE IF seen_slots(d) # Slots
        THEN [ok |-> FALSE,
              err |-> [kind |-> "missing field",
                       field |-> SlotNames[first_slot(Slots \ seen_slots(d))]]]
        ELSE [ok |-> TRUE, val |-> Base16Palette_of([i \in Slots |-> got[i].val])]

\* Figment::new().merge(provider).extract::<Base16Palette>()
extract(data) == IF data.ok THEN Base16Palette_deserialize(data.val) ELSE data

\* .map_err(Base16PaletteError::ExtractionFailed)
map_err(r) ==
    IF r.ok THEN r
    ELSE [ok |-> FALSE, err |-> [variant |-> "ExtractionFailed", cause |-> r.err]]

\* Base16Palette::from_yaml (lines 160-165)
from_yaml(f) == map_err(extract(Data_file("yaml", f)))

\* Base16Palette::from_toml (lines 192-197)
from_toml(f) == map_err(extract(Data_file("toml", f)))

(***************************************************************************)
(* State shared by the specifications below: what each leaves alone.       *)
(***************************************************************************)
NoFile == [kind |-> "absent"]

NoPalette == [kind |-> "none"]

NormIdle == tok = <<>> /\ parsed = <<>>

LoadIdle == pal = NoPalette /\ origin = "none" /\ file = NoFile
            /\ result = <<>> /\ edits = 0

(***************************************************************************)
(* SpecNorm: the normalizer applied to every string over Alphabet of at    *)
(* most MaxTokLen characters.                                              *)
(***************************************************************************)
Alphabet == {"#", "+", "r", "e", "d"}

InitNorm == NormIdle /\ LoadIdle

\* The caller's document supplies one more character of the token.
Push(c) ==
    /\ parsed = <<>>
    /\ Len(tok) < MaxTokLen
    /\ tok' = Append(tok, c)
    /\ UNCHANGED <<parsed, pal, origin, file, result, edits>>

\* serde calls deserialize_from_str on the slot's string value.
Normalize ==
    /\ parsed = <<>>
    /\ parsed' = <<deserialize_from_str(Str(tok))>>
    /\ UNCHANGED <<tok, pal, origin, file, result, edits>>

NextNorm ==
    \/ \E c \in Alphabet : Push(c)
    \/ Normalize

SpecNorm == InitNorm /\ [][NextNorm]_vars

(***************************************************************************)
(* Spec: a caller takes a palette (a catalog constant or the Default),     *)
(* may assign slots (the fields are pub), may serialize it to a file or    *)
(* write it as a hand-made Base16 scheme file, may edit that file by hand, *)
(* and calls from_yaml or from_toml on the path.                           *)
(***************************************************************************)
\* The colors a caller assigns to a slot.
SampleColors == {Named("Red"), Indexed(7)}

Token_not_a_color == <<"n","o","t","-","a","-","c","o","l","o","r">>

Token_red == <<"r","e","d">>

\* The values a hand edit gives a key.
SampleValues ==
    { Str(Token_not_a_color),
      Str(Token_red),
      Str(<<"#","a","1","e","f","e","4">>),
      Str(<<"+","e","+","e","+","e">>),
      Num }

\* The same key in another letter case: all capitals, and for base0a..base0f the
\* Base16 convention's base0A..base0F.
UpperKeys ==
    <<"BASE00", "BASE01", "BASE02", "BASE03", "BASE04", "BASE05", "BASE06", "BASE07",
      "BASE08", "BASE09", "BASE0A", "BASE0B", "BASE0C", "BASE0D", "BASE0E", "BASE0F">>

Base16Keys ==
    <<"base00", "base01", "base02", "base03", "base04", "base05", "base06", "base07",
      "base08", "base09", "base0A", "base0B", "base0C", "base0D", "base0E", "base0F">>

KeyVariants(i) == {UpperKeys[i], Base16Keys[i]} \ {SlotNames[i]}

\* "{:02x}": two lower-case hex digits, as the scheme files write a channel.
lower_hex2(n) == <<DigitChars[(n \div 16) + 1], DigitChars[(n % 16) + 1]>>

\* A Base16 scheme file of an all-RGB palette, as .config/dracula.yaml and
\* .config/github.yaml: scheme and author, and each slot as bare "rrggbb".
scheme_fields(p) ==
    [k \in {"scheme", "author"} \cup {SlotNames[i] : i \in Slots} |->
        IF k \in {"scheme", "author"} THEN Str(<<"t","e","x","t">>)
        ELSE Str(lower_hex2(p[k].r) \o lower_hex2(p[k].g) \o lower_hex2(p[k].b))]

\* The schemes the repository's test reads (lines 519 and 523).
Fixtures == {"DRACULA", "GITHUB_LIGHT"}

Init ==
    /\ NormIdle
    /\ \E n \in PresetNames \cup {"default"} :
          /\ origin = n
          /\ pal = IF n = "default" THEN Base16Palette_default ELSE Catalog(n)
    /\ file = NoFile
    /\ result = <<>>
    /\ edits = 0

\* palette.base0x = color: every field of Base16Palette is pub.
SetSlot(i, c) ==
    /\ file = NoFile /\ result = <<>>
    /\ edits < MaxEdits
    /\ pal[SlotNames[i]] # c
    /\ pal' = [pal EXCEPT ![SlotNames[i]] = c]
    /\ origin' = "edited"
    /\ edits' = edits + 1
    /\ UNCHANGED <<tok, parsed, file, result>>

\* The palette serialized (serde_yaml / toml) and written to the path.
Save(fmt) ==
    /\ file = NoFile /\ result = <<>>
    /\ file' = File(fmt, "serialize", serialize(pal))
    /\ UNCHANGED <<tok, parsed, pal, origin, result, edits>>

\* A scheme file of the palette written by hand.
WriteScheme(fmt) ==
    /\ file = NoFile /\ result = <<>>
    /\ origin \in Fixtures
    /\ file' = File(fmt, "scheme", scheme_fields(pal))
    /\ UNCHANGED <<tok, parsed, pal, origin, result, edits>>

HandEditable ==
    /\ file.kind = "file" /\ file.by = "scheme"
    /\ result = <<>>
    /\ edits < MaxEdits

SetValue(i, v) ==
    /\ HandEditable
    /\ SlotNames[i] \in DOMAIN file.fields
    /\ file.fields[SlotNames[i]] # v
    /\ file' = [file EXCEPT !.fields[SlotNames[i]] = v]
    /\ edits' = edits + 1
    /\ UNCHANGED <<tok, parsed, pal, origin, result>>

RemoveKey(i) ==
    /\ HandEditable
    /\ SlotNames[i] \in DOMAIN file.fields
    /\ file' = [file EXCEPT !.fields =
                   [k \in DOMAIN file.fields \ {SlotNames[i]} |-> file.fields[k]]]
    /\ edits' = edits + 1
    /\ UNCHANGED <<tok, parsed, pal, origin, result>>

RenameKey(i, key) ==
    /\ HandEditable
    /\ SlotNames[i] \in DOMAIN file.fields
    /\ key \notin DOMAIN file.fields
    /\ file' = [file EXCEPT !.fields =
                   [k \in (DOMAIN file.fields \ {SlotNames[i]}) \cup {key} |->
                       IF k = key THEN file.fields[SlotNames[i]] ELSE file.fields[k]]]
    /\ edits' = edits + 1
    /\ UNCHANGED <<tok, parsed, pal, origin, result>>

\* The file loses its read permission.
Protect ==
    /\ file.kind = "file" /\ file.by = "scheme"
    /\ result = <<>>
    /\ edits = 0
    /\ file' = Unreadable
    /\ UNCHANGED <<tok, parsed, pal, origin, result, edits>>

Call(fmt, out) == <<[fmt |-> fmt, input |-> file, out |-> out]>>

FromYaml ==
    /\ result = <<>>
    /\ result' = Call("yaml", from_yaml(file))
    /\ UNCHANGED <<tok, parsed, pal, origin, file, edits>>

FromToml ==
    /\ result = <<>>
    /\ result' = Call("toml", from_toml(file))
    /\ UNCHANGED <<tok, parsed, pal, origin, file, edits>>

Next ==
    \/ \E i \in Slots, c \in SampleColors : SetSlot(i, c)
    \/ \E fmt \in Formats : Save(fmt)
    \/ \E fmt \in Formats : WriteScheme(fmt)
    \/ \E i \in Slots, v \in SampleValues : SetValue(i, v)
    \/ \E i \in Slots : RemoveKey(i)
    \/ \E i \in Slots : \E key \in KeyVariants(i) : RenameKey(i, key)
    \/ Protect
    \/ FromYaml
    \/ FromToml

Spec == Init /\ [][Next]_vars

(***************************************************************************)
(* What the claims speak of, stated apart from the code's own parsing.     *)
(***************************************************************************)
\* The value of a hexadecimal digit, either case.
HexValue ==
    ("0" :> 0) @@ ("1" :> 1) @@ ("2" :> 2) @@ ("3" :> 3) @@ ("4" :> 4) @@
    ("5" :> 5) @@ ("6" :> 6) @@ ("7" :> 7) @@ ("8" :> 8) @@ ("9" :> 9) @@
    ("a" :> 10) @@ ("b" :> 11) @@ ("c" :> 12) @@ ("d" :> 13) @@ ("e" :> 14) @@
    ("f" :> 15) @@ ("A" :> 10) @@ ("B" :> 11) @@ ("C" :> 12) @@ ("D" :> 13) @@
    ("E" :> 14) @@ ("F" :> 15)

IsHexDigit(c) == c \in DOMAIN HexValue

\* A token without its leading '#', if it has one.
Body(t) == IF Len(t) >= 1 /\ t[1] = "#" THEN Tail(t) ELSE t

\* RRGGBB: exactly six hexadecimal digits.
IsHex6(t) == Len(t) = 6 /\ \A i \in 1..6 : IsHexDigit(t[i])

\* RRGGBB or #RRGGBB.
IsHexToken(t) == IsHex6(Body(t))

\* The triple (RR, GG, BB) six hexadecimal digits denote.
HexTriple(t) ==
    Rgb(16 * HexValue[t[1]] + HexValue[t[2]],
        16 * HexValue[t[3]] + HexValue[t[4]],
        16 * HexValue[t[5]] + HexValue[t[6]])

\* Two characters the color model reads as one channel: two hexadecimal digits,
\* or a '+' sign and one hexadecimal digit.
IsChannelText(a, b) == (IsHexDigit(a) \/ a = "+") /\ IsHexDigit(b)

ChannelValue(a, b) == IF a = "+" THEN HexValue[b] ELSE 16 * HexValue[a] + HexValue[b]

\* A token the color model takes for a color once the '#' is in place.
IsColorToken(t) ==
    LET h == Body(t)
    IN  /\ Len(h) = 6
        /\ IsChannelText(h[1], h[2])
        /\ IsChannelText(h[3], h[4])
        /\ IsChannelText(h[5], h[6])

ColorOfToken(t) ==
    LET h == Body(t)
    IN  Rgb(ChannelValue(h[1], h[2]), ChannelValue(h[3], h[4]), ChannelValue(h[5], h[6]))

\* The last loader call: its input file, its format and what it returned.
Called == result # <<>>

In == result[1].input

Fmt == result[1].fmt

Out == result[1].out

\* The input is a readable document in the grammar of the loader called.
Parses == In.kind = "file" /\ In.syntax = Fmt

HasKey(i) == SlotNames[i] \in DOMAIN In.fields

ValueAt(i) == In.fields[SlotNames[i]]

ValidHexAt(i) == HasKey(i) /\ ValueAt(i).type = "str" /\ IsHexToken(ValueAt(i).s)

ValidAt(i) == HasKey(i) /\ ValueAt(i).type = "str" /\ IsColorToken(ValueAt(i).s)

ExtractionFailed(r) ==
    /\ ~r.ok
    /\ DOMAIN r = {"ok", "err"}
    /\ r.err.variant = "ExtractionFailed"

\* A key with its letters in lower case.
KeyLower(k) ==
    IF \E i \in Slots : k \in {UpperKeys[i], Base16Keys[i]}
    THEN SlotNames[CHOOSE i \in Slots : k \in {UpperKeys[i], Base16Keys[i]}]
    ELSE k

(***************************************************************************)
(* The claims.                                                             *)
(***************************************************************************)
\* C1: for every string s of six hexadecimal digits, deserialize_from_str returns
\* for s and for "#" + s the same value, the RGB triple (RR, GG, BB).
C1_HexWithOrWithoutHash ==
    (parsed # <<>> /\ IsHexToken(tok)) =>
        parsed[1] = [ok |-> TRUE, val |-> HexTriple(Body(tok))]

C1_Witness ==
    /\ parsed # <<>>
    /\ tok = <<"e","d","d","e","e","e">>
    /\ parsed[1] = [ok |-> TRUE, val |-> Rgb(237, 222, 238)]

\* C6 as stated: given the color name "red", deserialize_from_str returns the
\* named color Red.
C6_NamedColorAccepted ==
    (parsed # <<>> /\ tok = Token_red) =>
        parsed[1] = [ok |-> TRUE, val |-> Named("Red")]

\* C6 as amended: deserialize_from_str refuses the color name "red" with a
\* validation failure, and every color it returns is an RGB triple.
C6_NamedColorRefused ==
    parsed # <<>> =>
        /\ tok = Token_red => parsed[1] = [ok |-> FALSE, err |-> "ParseColorError"]
        /\ parsed[1].ok => parsed[1].val.kind = "Rgb"

C6_Witness ==
    /\ parsed # <<>>
    /\ tok = Token_red
    /\ ~parsed[1].ok

\* C2: loading a well-formed document with all 16 keys, each a valid hex string,
\* returns Ok, and every slot is the color of the value under its own key.
C2_WellFormedLoads ==
    (Called /\ Parses /\ \A i \in Slots : ValidHexAt(i)) =>
        /\ Out.ok
        /\ \A i \in Slots : Out.val[SlotNames[i]] = HexTriple(Body(ValueAt(i).s))

C2_Witness ==
    /\ Called /\ Parses /\ Fmt = "toml"
    /\ \A i \in Slots : ValidHexAt(i)
    /\ ValueAt(13).s = <<"#","a","1","e","f","e","4">>
    /\ Out.ok
    /\ Out.val.base0c = Rgb(161, 239, 228)
    /\ Out.val.base00 = Rgb(40, 41, 54)

\* C3: loading a document that lacks a slot's key returns Err(ExtractionFailed),
\* from_yaml and from_toml alike; with the other 15 present and valid the cause
\* is that slot's missing field.
C3_MissingSlotFails ==
    (Called /\ Parses) =>
        \A i \in Slots :
            ~HasKey(i) =>
                /\ ExtractionFailed(Out)
                /\ (\A j \in Slots \ {i} : ValidHexAt(j)) =>
                       Out.err.cause = [kind |-> "missing field", field |-> SlotNames[i]]

C3_Witness ==
    /\ Called /\ Parses /\ Fmt = "yaml"
    /\ ~HasKey(16)
    /\ \A j \in Slots \ {16} : ValidHexAt(j)
    /\ ExtractionFailed(Out)

C5_AbsentFileIsIoFailure ==
    (Called /\ In.kind = "absent") =>
        /\ ExtractionFailed(Out)
        /\ Out.err.cause.kind = "io"

\* C5 as amended: loading a path with no file returns Err(ExtractionFailed) whose
\* cause is the missing field base00: the absent file counts as an empty document.
C5_AbsentFileIsMissingField ==
    (Called /\ In.kind = "absent") =>
        /\ ExtractionFailed(Out)
        /\ Out.err.cause = [kind |-> "missing field", field |-> "base00"]

C5_Witness ==
    /\ Called
    /\ In = NoFile
    /\ Fmt = "toml"
    /\ ExtractionFailed(Out)

\* C7: a load is all-or-nothing: Ok with every one of the 16 slots holding the
\* color of the document's value for that slot, or ExtractionFailed and no
\* palette; a defect at any slot never leaves a palette behind.
C7_AllOrNothing ==
    Called =>
        /\ Out.ok =>
              /\ DOMAIN Out = {"ok", "val"}
              /\ Parses
              /\ {SlotNames[i] : i \in Slots} \subseteq DOMAIN Out.val
              /\ \A i \in Slots :
                    ValidAt(i) /\ Out.val[SlotNames[i]] = ColorOfToken(ValueAt(i).s)
        /\ ~Out.ok => ExtractionFailed(Out)
        /\ (~Parses \/ \E i \in Slots : ~ValidAt(i)) => ~Out.ok

C7_Witness ==
    /\ Called /\ Parses
    /\ ~ValidAt(10)
    /\ \A j \in Slots \ {10} : ValidHexAt(j)
    /\ ExtractionFailed(Out)

\* C8: every catalog constant has all 16 slots, and the slot written 0x00RRGGBB
\* under a slot name is the RGB color (RR, GG, BB) of that literal.
C8_PresetsMatchLiterals ==
    origin \in PresetNames =>
        /\ pal.name = Invocations[origin].scheme
        /\ \A i \in Slots :
              LET c == pal[SlotNames[i]]
              IN  /\ c.kind = "Rgb"
                  /\ {c.r, c.g, c.b} \subseteq 0..255
                  /\ c.r * 65536 + c.g * 256 + c.b = Invocations[origin][SlotNames[i]]

C8_Witness ==
    /\ origin = "DEFAULT_DARK"
    /\ pal.base08 = Rgb(171, 70, 66)
    /\ pal.base0f = Rgb(161, 105, 70)

\* The last call loaded, in its own grammar, the file the palette was serialized to.
Reloaded == Called /\ In.kind = "file" /\ In.by = "serialize" /\ In.syntax = Fmt

\* C9 as stated: for any palette, serializing it and loading the document
\* succeeds and gives the same 16 slots.
C9_RoundTripAnyPalette ==
    Reloaded =>
        /\ Out.ok
        /\ \A i \in Slots : Out.val[SlotNames[i]] = pal[SlotNames[i]]

\* C9 as amended: for any palette whose 16 slots are all RGB colors, serializing
\* it and loading the document succeeds and gives the same 16 slots.
C9_RoundTripRgbPalette ==
    (Reloaded /\ \A i \in Slots : pal[SlotNames[i]].kind = "Rgb") =>
        /\ Out.ok
        /\ \A i \in Slots : Out.val[SlotNames[i]] = pal[SlotNames[i]]

C9_Witness ==
    /\ Reloaded
    /\ origin = "GITHUB_LIGHT"
    /\ Out.ok
    /\ Out.val.base09 = Rgb(0, 134, 179)
    /\ Out.val.name = "" /\ pal.name = "Github"

\* C10: a document whose slot keys differ from the fixed identifiers only in
\* letter case loads to the palette of the document with the lower-case keys.
C10_KeysCaseNormalized ==
    (/\ Called /\ Parses
     /\ \A i \in Slots :
           \E k \in DOMAIN In.fields :
               /\ KeyLower(k) = SlotNames[i]
               /\ In.fields[k].type = "str"
               /\ IsHexToken(In.fields[k].s)) =>
        /\ Out.ok
        /\ \A i \in Slots :
              \A k \in DOMAIN In.fields :
                  KeyLower(k) = SlotNames[i] =>
                      Out.val[SlotNames[i]] = HexTriple(Body(In.fields[k].s))

====
